---- MODULE Spec2Model ----
(***************************************************************************)
(* Model of src/task1_data_parsing.py (the record normalizer and its       *)
(* driver main) and src/task2_data_mapping.py (the nearest-station         *)
(* resolver and its driver process_data).                                  *)
(*                                                                         *)
(* Text is a sequence of one-character strings, so that str.split,         *)
(* str.strip, int() and float() are computed character by character.       *)
(* Python's None is the empty tuple <<>>, a present number n is <<n>>.     *)
(* Numeric text is restricted to signed decimal integers.                  *)
(***************************************************************************)
EXTENDS Integers, Sequences, FiniteSets, TLC

(***************************************************************************)
(* Bounds of the model.                                                    *)
(***************************************************************************)
MaxLines == 3
MaxStationLines == 3
MaxStations == 3
MaxCalls == 2
MaxTags == 2

VARIABLES
    \* a direct call of extract_information followed by feature calls
    arg,              \* the values the raw line was written from
    unit_line,  \* the raw line handed to extract_information
    unit_dict,    \* the dictionary returned, as the feature calls leave it
    raised,           \* the exception of the call, "None" when it returned
    calls,            \* the add_feature / remove_feature calls made so far
    upc,              \* "input", "extracted" or "raised"
    \* a direct call of find_nearest_station
    near_property,    \* the property handed to find_nearest_station
    near_stations,     \* the stations dictionary handed to it, in order
    nearest,          \* what it returned, None before the call
    npc,              \* "input" or "returned"
    \* a run of one of the two scripts
    program,          \* "task1" (main) or "task2" (process_data)
    fileExists,       \* whether the property file exists
    propFile,         \* the lines of the property file
    stationFile,      \* the lines of the station file, once it is opened
    pc,               \* the statement the script is at
    rest,             \* what the running for loop has still to visit
    processed_data,   \* main's list of dictionaries
    properties,       \* process_properties' dictionary
    stations,         \* process_stations' dictionary
    results,          \* process_data's list
    output_json,      \* the output artifact: None, or Some(what was dumped)
    stdout,           \* what was printed
    exception,        \* the uncaught exception, "None" while there is none
    parsed            \* history: <<source, line number>> of each line parsed

runVars == <<program, fileExists, propFile, stationFile, pc, rest,
             processed_data, properties, stations, results, output_json,
             stdout, exception, parsed>>

unitVars == <<arg, unit_line, unit_dict, raised, calls, upc>>

nearestVars == <<near_property, near_stations, nearest, npc>>

vars == <<unitVars, nearestVars, runVars>>

(***************************************************************************)
(* Python values.                                                          *)
(***************************************************************************)
None == <<>>

Some(v) == <<v>>

\* bool(x) of an Optional[float] / Optional[int]: None and 0 are falsy.
Truthy(x) == x # None /\ x[1] # 0

(***************************************************************************)
(* str methods.                                                            *)
(***************************************************************************)
Whitespace == {" ", "\n"}

Digits == {"0", "1", "2", "3", "4", "5", "6", "7", "8", "9"}

DigitValue(c) ==
    CASE c = "0" -> 0 [] c = "1" -> 1 [] c = "2" -> 2 [] c = "3" -> 3
      [] c = "4" -> 4 [] c = "5" -> 5 [] c = "6" -> 6 [] c = "7" -> 7
      [] c = "8" -> 8 [] c = "9" -> 9

\* s.split(sep): the fields between the occurrences of sep, at least one.
RECURSIVE SplitFrom(_, _, _)
SplitFrom(s, sep, cur) ==
    IF s = <<>> THEN <<cur>>
    ELSE IF Head(s) = sep THEN <<cur>> \o SplitFrom(Tail(s), sep, <<>>)
    ELSE SplitFrom(Tail(s), sep, Append(cur, Head(s)))

split(s, sep) == SplitFrom(s, sep, <<>>)

RECURSIVE lstrip(_)
lstrip(s) ==
    IF s # <<>> /\ Head(s) \in Whitespace THEN lstrip(Tail(s)) ELSE s

RECURSIVE rstrip(_)
rstrip(s) ==
    IF s # <<>> /\ s[Len(s)] \in Whitespace
    THEN rstrip(SubSeq(s, 1, Len(s) - 1)) ELSE s

\* s.strip()
strip(s) == rstrip(lstrip(s))

\* c in s
Contains(s, c) == \E i \in 1..Len(s) : s[i] = c

\* x in list
InList(list, x) == \E i \in 1..Len(list) : list[i] = x

(***************************************************************************)
(* int(text) and float(text) on signed decimal integers: surrounding       *)
(* whitespace is ignored, one optional sign, at least one digit; anything  *)
(* else raises ValueError.                                                 *)
(***************************************************************************)
Unsigned(t) ==
    IF t # <<>> /\ Head(t) \in {"-", "+"} THEN Tail(t) ELSE t

IsNumeric(s) ==
    LET u == Unsigned(strip(s))
    IN  u # <<>> /\ \A i \in 1..Len(u) : u[i] \in Digits

RECURSIVE DigitsValue(_, _)
DigitsValue(u, acc) ==
    IF u = <<>> THEN acc
    ELSE DigitsValue(Tail(u), 10 * acc + DigitValue(Head(u)))

ParseNumber(s) ==
    LET t == strip(s)
        n == DigitsValue(Unsigned(t), 0)
    IN  IF Head(t) = "-" THEN 0 - n ELSE n

(***************************************************************************)
(* extract_information                                                     *)
(***************************************************************************)
\* parts[k] (0-based) read as a field: IndexError when the line is too short.
FieldError(parts, k) ==
    IF Len(parts) < k + 1 THEN "IndexError" ELSE "None"

\* int(parts[k]) if parts[k] else None
IntFieldError(parts, k) ==
    IF Len(parts) < k + 1 THEN "IndexError"
    ELSE IF parts[k + 1] # <<>> /\ ~IsNumeric(parts[k + 1]) THEN "ValueError"
    ELSE "None"

IntField(parts, k) ==
    IF parts[k + 1] # <<>> THEN Some(ParseNumber(parts[k + 1])) ELSE None

\* float(parts[k]) when parts[k] is populated, else the initial None
FloatField(parts, k) ==
    IF parts[k + 1] # <<>> THEN Some(ParseNumber(parts[k + 1])) ELSE None

\* InRange with strict comparisons: the bounds themselves are rejected.
InRangeExclusive(value, limit) == 0 - limit < value /\ value < limit

\* -limit <= value <= limit
InRange(value, limit) == 0 - limit <= value /\ value <= limit

\* if parts[k]: value = float(parts[k]); if not -limit <= value <= limit: raise
CoordError(parts, k, limit) ==
    IF Len(parts) < k + 1 THEN "IndexError"
    ELSE IF parts[k + 1] = <<>> THEN "None"
    ELSE IF ~IsNumeric(parts[k + 1]) THEN "ValueError"
    ELSE IF ~InRange(ParseNumber(parts[k + 1]), limit) THEN "ValueError"
    ELSE "None"

\* The address steps: parts[1], then separated_address[-3].
AddressError(parts) ==
    IF Len(parts) < 2 THEN "IndexError"
    ELSE IF Len(split(parts[2], " ")) < 3 THEN "IndexError"
    ELSE "None"

\* The first exception in the order the statements are evaluated.
RECURSIVE FirstError(_)
FirstError(errs) ==
    IF errs = <<>> THEN "None"
    ELSE IF Head(errs) # "None" THEN Head(errs)
    ELSE FirstError(Tail(errs))

ExtractError(parts) ==
    FirstError(<< AddressError(parts),
                  CoordError(parts, 5, 90),
                  CoordError(parts, 6, 180),
                  FieldError(parts, 0),
                  IntFieldError(parts, 2),
                  IntFieldError(parts, 3),
                  IntFieldError(parts, 4),
                  IntFieldError(parts, 7),
                  IntFieldError(parts, 8),
                  IntFieldError(parts, 9),
                  IntFieldError(parts, 10),
                  FieldError(parts, 11) >>)

\* [f(x) for x in list]
RECURSIVE StripAll(_)
StripAll(list) ==
    IF list = <<>> THEN <<>> ELSE <<strip(Head(list))>> \o StripAll(Tail(list))

\* ParseFeatures with every tag stripped.
ParseFeaturesTrimmed(field) ==
    IF field # <<>> THEN StripAll(split(field, ";")) ELSE <<>>

\* parts[11].split(';') if parts[11] else []
ParseFeatures(field) ==
    IF field # <<>> THEN split(field, ";") ELSE <<>>

PropertyDict(parts) ==
    LET address == parts[2]
        separated_address == split(address, " ")
    IN  [ prop_id |-> parts[1],
          prop_type |-> IF Contains(separated_address[1], "/")
                        THEN "apartment" ELSE "house",
          full_address |-> address,
          suburb |-> separated_address[Len(separated_address) - 2],
          bedrooms |-> IntField(parts, 2),
          bathrooms |-> IntField(parts, 3),
          parking_spaces |-> IntField(parts, 4),
          latitude |-> FloatField(parts, 5),
          longitude |-> FloatField(parts, 6),
          floor_number |-> IntField(parts, 7),
          land_area |-> IntField(parts, 8),
          floor_area |-> IntField(parts, 9),
          price |-> IntField(parts, 10),
          property_features |-> ParseFeatures(parts[12]) ]

\* The call's outcome: the exception raised ("None" when it returns) and the
\* returned dictionary.
extract_information(property_string) ==
    LET parts == split(property_string, ",")
        exc == ExtractError(parts)
    IN  [ exc |-> exc,
          value |-> IF exc = "None" THEN PropertyDict(parts) ELSE None ]

(***************************************************************************)
(* add_feature, remove_feature                                             *)
(***************************************************************************)
\* list.remove(x): drops the first occurrence of x, ValueError when absent.
RECURSIVE RemoveFirst(_, _)
RemoveFirst(list, x) ==
    IF list = <<>> THEN <<>>
    ELSE IF Head(list) = x THEN Tail(list)
    ELSE <<Head(list)>> \o RemoveFirst(Tail(list), x)

ListRemove(list, x) ==
    IF InList(list, x) THEN [exc |-> "None", list |-> RemoveFirst(list, x)]
    ELSE [exc |-> "ValueError", list |-> list]

\* list.append(x) never raises.
ListAppend(list, x) == [exc |-> "None", list |-> Append(list, x)]

\* add_feature without its membership test.
add_feature_always(features, feature) == ListAppend(features, feature)

\* add_feature(property_dict, feature): the exception and the feature list left.
add_feature(features, feature) ==
    IF ~InList(features, feature) THEN ListAppend(features, feature)
    ELSE [exc |-> "None", list |-> features]

\* remove_feature(property_dict, feature): the exception and the list left.
remove_feature(features, feature) ==
    IF InList(features, feature) THEN ListRemove(features, feature)
    ELSE [exc |-> "None", list |-> features]

(***************************************************************************)
(* Raw lines: how the input files are written from values.                 *)
(***************************************************************************)
DigitChars == <<"0", "1", "2", "3", "4", "5", "6", "7", "8", "9">>

RECURSIVE FormatNat(_)
FormatNat(n) ==
    IF n < 10 THEN <<DigitChars[n + 1]>>
    ELSE Append(FormatNat(n \div 10), DigitChars[(n % 10) + 1])

FormatNumber(n) == IF n < 0 THEN <<"-">> \o FormatNat(0 - n) ELSE FormatNat(n)

\* An absent value is written as the empty field.
FormatOptional(x) == IF x = None THEN <<>> ELSE FormatNumber(x[1])

RECURSIVE Join(_, _)
Join(fields, sep) ==
    IF fields = <<>> THEN <<>>
    ELSE IF Len(fields) = 1 THEN fields[1]
    ELSE fields[1] \o <<sep>> \o Join(Tail(fields), sep)

\* "3 Antrim Place Langwarrin VIC 3910", "4/10 High St Richmond VIC 3121"
HouseAddress == <<"3", " ", "A", " ", "L", " ", "V", " ", "9">>

ApartmentAddress == <<"4", "/", "1", " ", "H", " ", "R", " ", "V", " ", "3">>

\* The first nfields fields of a property line: id, address, bedrooms,
\* bathrooms, parking, latitude, longitude, floor, land area, floor area,
\* price, features.
PropertyLine(id, address, lat, lon, tags, nfields) ==
    Join(SubSeq(<< id, address, <<"4">>, <<"2">>, <<"2">>,
                   FormatOptional(lat), FormatOptional(lon), <<>>,
                   FormatNumber(608), FormatNumber(257), FormatNumber(870),
                   Join(tags, ";") >>, 1, nfields), ",")

\* Sequences over S of length at most n.
SeqUpTo(S, n) == UNION { [1..k -> S] : k \in 0..n }

Count(list, x) == Cardinality({ i \in 1..Len(list) : list[i] = x })

(***************************************************************************)
(* A direct call of extract_information, then add_feature and              *)
(* remove_feature calls on the dictionary it returned.                     *)
(***************************************************************************)
LatInputs == {None, Some(-91), Some(-90), Some(0), Some(45), Some(90), Some(91)}

LonInputs == {None, Some(-181), Some(-180), Some(0), Some(145), Some(180), Some(181)}

\* dishwasher, heating with a leading blank, balcony with a trailing blank
TagPool == { <<"d">>, <<" ", "h">>, <<"b", " ">> }

FeatureArgs == { <<"d">>, <<"h">> }

UnitIdle ==
    /\ arg = None /\ unit_line = <<>> /\ unit_dict = None
    /\ raised = "None" /\ calls = <<>> /\ upc = "idle"

NearestIdle ==
    /\ near_property = None /\ near_stations = <<>> /\ nearest = None
    /\ npc = "idle"

RunIdle ==
    /\ program = "none" /\ fileExists = FALSE /\ propFile = <<>>
    /\ stationFile = <<>> /\ pc = "idle" /\ rest = <<>>
    /\ processed_data = <<>> /\ properties = <<>> /\ stations = <<>>
    /\ results = <<>> /\ output_json = None /\ stdout = <<>>
    /\ exception = "None" /\ parsed = <<>>

InitExtract ==
    /\ \E lat \in LatInputs, lon \in LonInputs, tags \in SeqUpTo(TagPool, MaxTags),
          address \in {HouseAddress, ApartmentAddress}, nfields \in {11, 12} :
          /\ arg = [ lat |-> lat, lon |-> lon, tags |-> tags,
                     address |-> address, nfields |-> nfields ]
          /\ unit_line =
                 PropertyLine(<<"P", "1">>, address, lat, lon, tags, nfields)
    /\ unit_dict = None
    /\ raised = "None"
    /\ calls = <<>>
    /\ upc = "input"
    /\ NearestIdle
    /\ RunIdle

Extract ==
    /\ upc = "input"
    /\ LET r == extract_information(unit_line)
       IN  /\ raised' = r.exc
           /\ unit_dict' = r.value
           /\ upc' = IF r.exc = "None" THEN "extracted" ELSE "raised"
    /\ UNCHANGED <<arg, unit_line, calls, nearestVars, runVars>>

AddFeature(feature) ==
    /\ upc = "extracted"
    /\ Len(calls) < MaxCalls
    /\ LET r == add_feature(unit_dict.property_features, feature)
       IN  /\ unit_dict' = [unit_dict EXCEPT !.property_features = r.list]
           /\ calls' = Append(calls,
                  [ op |-> "add_feature", feature |-> feature,
                    before |-> unit_dict.property_features,
                    after |-> r.list, exc |-> r.exc ])
    /\ UNCHANGED <<arg, unit_line, raised, upc, nearestVars, runVars>>

RemoveFeature(feature) ==
    /\ upc = "extracted"
    /\ Len(calls) < MaxCalls
    /\ LET r == remove_feature(unit_dict.property_features, feature)
       IN  /\ unit_dict' = [unit_dict EXCEPT !.property_features = r.list]
           /\ calls' = Append(calls,
                  [ op |-> "remove_feature", feature |-> feature,
                    before |-> unit_dict.property_features,
                    after |-> r.list, exc |-> r.exc ])
    /\ UNCHANGED <<arg, unit_line, raised, upc, nearestVars, runVars>>

NextExtract ==
    \/ Extract
    \/ \E feature \in FeatureArgs : AddFeature(feature)
    \/ \E feature \in FeatureArgs : RemoveFeature(feature)

SpecExtract == InitExtract /\ [][NextExtract]_vars

(***************************************************************************)
(* Dictionaries keep their keys in insertion order: a sequence of          *)
(* key/value entries with distinct keys.                                   *)
(***************************************************************************)
HasKey(d, k) == \E i \in 1..Len(d) : d[i].key = k

\* DictSet with first-write-wins: an existing key keeps its first value.
DictSetDefault(d, k, v) ==
    IF HasKey(d, k) THEN d ELSE Append(d, [key |-> k, value |-> v])

\* d[k] = v: a new key goes last, an existing key keeps its place.
DictSet(d, k, v) ==
    IF HasKey(d, k)
    THEN [ i \in 1..Len(d) |->
             IF d[i].key = k THEN [key |-> k, value |-> v] ELSE d[i] ]
    ELSE Append(d, [key |-> k, value |-> v])

\* d.values()
DictValues(d) == [ i \in 1..Len(d) |-> d[i].value ]

\* d[k] for a key that is there.
DictGet(d, k) == d[CHOOSE i \in 1..Len(d) : d[i].key = k].value

(***************************************************************************)
(* haversine_distance on coordinates that are multiples of 90 degrees,     *)
(* where the formula is exact in integers:                                 *)
(*   2a = (1 - cos dlat) + cos lat1 * cos lat2 * (1 - cos dlon)            *)
(*   c = 2 atan2(sqrt a, sqrt (1 - a)) is 0, pi/2, pi for 2a = 0, 1, 2     *)
(*   distance = R c, a multiple of a quarter of the great circle, in km.   *)
(***************************************************************************)
Cos90(degrees) ==
    LET m == degrees % 360
    IN  IF m = 0 THEN 1 ELSE IF m = 180 THEN 0 - 1 ELSE 0

haversine_distance(lat1, lon1, lat2, lon2) ==
    LET twoA == (1 - Cos90(lat2 - lat1))
                  + Cos90(lat1) * Cos90(lat2) * (1 - Cos90(lon2 - lon1))
    IN  twoA * 10007

(***************************************************************************)
(* find_nearest_station                                                    *)
(***************************************************************************)
\* float('inf')
Infinity == <<>>

\* Closer with <=: an equal distance replaces the current best.
CloserOrEqual(distance, min_distance) ==
    min_distance = Infinity \/ distance <= min_distance[1]

\* distance < min_distance
Closer(distance, min_distance) ==
    min_distance = Infinity \/ distance < min_distance[1]

\* The loop over stations.values(): the name held when the loop ends.
RECURSIVE ScanStations(_, _, _, _)
ScanStations(property_location, values, min_distance, nearest_station_name) ==
    IF values = <<>> THEN nearest_station_name
    ELSE LET station == Head(values)
             distance == haversine_distance(
                             property_location[1], property_location[2],
                             station.stop_lat, station.stop_lon)
         IN  IF Closer(distance, min_distance)
             THEN ScanStations(property_location, Tail(values),
                               Some(distance), Some(station.stop_name))
             ELSE ScanStations(property_location, Tail(values),
                               min_distance, nearest_station_name)

find_nearest_station(property_info, all_stations) ==
    LET property_location ==
            <<property_info.latitude[1], property_info.longitude[1]>>
    IN  [ property_id |-> property_info.prop_id,
          nearest_station |->
              ScanStations(property_location, DictValues(all_stations),
                           Infinity, None) ]

(***************************************************************************)
(* A direct call of find_nearest_station.                                  *)
(***************************************************************************)
Station(id, name, lat, lon) ==
    [stop_id |-> id, stop_name |-> name, stop_lat |-> lat, stop_lon |-> lon]

StationPool ==
    { Station(<<"1">>, <<"W">>, 0, 0),
      Station(<<"2">>, <<"F">>, 0, 180),
      Station(<<"3">>, <<"R">>, 90, 0),
      Station(<<"4">>, <<"C">>, 0, 90),
      Station(<<"5">>, <<"W">>, -90, 0) }

\* The dictionaries process_stations can build from the pool.
StationDicts ==
    { [ i \in 1..Len(q) |-> [key |-> q[i].stop_id, value |-> q[i]] ] :
        q \in { r \in SeqUpTo(StationPool, MaxStations) :
                  \A i, j \in 1..Len(r) : i # j => r[i].stop_id # r[j].stop_id } }

\* A property as extract_information returns it, at the given coordinates.
PropertyAt(lat, lon) ==
    extract_information(
        PropertyLine(<<"P", "1">>, HouseAddress, Some(lat), Some(lon), <<>>, 12)).value

InitNearest ==
    /\ \E lat \in {-90, 0, 90}, lon \in {-180, -90, 0, 90, 180} :
          near_property = PropertyAt(lat, lon)
    /\ near_stations \in StationDicts
    /\ nearest = None
    /\ npc = "input"
    /\ UnitIdle
    /\ RunIdle

FindNearest ==
    /\ npc = "input"
    /\ nearest' = Some(find_nearest_station(near_property, near_stations))
    /\ npc' = "returned"
    /\ UNCHANGED <<near_property, near_stations, unitVars, runVars>>

NextNearest == FindNearest

SpecNearest == InitNearest /\ [][NextNearest]_vars

(***************************************************************************)
(* Properties of find_nearest_station.                                     *)
(***************************************************************************)
DistanceTo(k) ==
    haversine_distance(near_property.latitude[1], near_property.longitude[1],
                       near_stations[k].value.stop_lat,
                       near_stations[k].value.stop_lon)

\* Station k is the first, in iteration order, at the minimum distance.
FirstAtMinimum(k) ==
    /\ \A j \in 1..Len(near_stations) : DistanceTo(j) >= DistanceTo(k)
    /\ \A j \in 1..(k - 1) : DistanceTo(j) > DistanceTo(k)

\* C4: find_nearest_station returns the name of the first station in
\* iteration order whose distance to the property is the minimum over all
\* stations, and a null nearest_station when there is no station.
C4_FirstMinimum ==
    npc = "returned" =>
        /\ nearest[1].property_id = near_property.prop_id
        /\ IF near_stations = <<>>
           THEN nearest[1].nearest_station = None
           ELSE \E k \in 1..Len(near_stations) :
                    /\ FirstAtMinimum(k)
                    /\ nearest[1].nearest_station
                           = Some(near_stations[k].value.stop_name)

\* Two stations of different names tie at the minimum; the earlier is returned.
C4_Witness ==
    /\ npc = "returned"
    /\ \E j, k \in 1..Len(near_stations) :
          /\ j < k /\ FirstAtMinimum(j) /\ DistanceTo(k) = DistanceTo(j)
          /\ near_stations[j].value.stop_name # near_stations[k].value.stop_name
          /\ nearest[1].nearest_station = Some(near_stations[j].value.stop_name)

(***************************************************************************)
(* The input files of a run.                                               *)
(***************************************************************************)
\* A line as the file holds it, with its line terminator.
Raw(text) == text \o <<"\n">>

P1 == <<"P", "1">>

\* The lines a property file is made of: a header, P1 with coordinates, P1
\* again with other data, P1 again without coordinates, a property at
\* latitude 0, one at latitude 95, and one without its features field.
PropertyLinePool ==
    { Raw(Join(<< <<"i">>, <<"a">>, <<"b">>, <<"t">>, <<"p">>, <<"y">>,
                  <<"x">>, <<"f">>, <<"l">>, <<"r">>, <<"c">>, <<"e">> >>, ",")),
      Raw(PropertyLine(P1, HouseAddress, Some(-90), Some(90), << <<"d">> >>, 12)),
      Raw(PropertyLine(P1, ApartmentAddress, Some(90), Some(-180), <<>>, 12)),
      Raw(PropertyLine(P1, HouseAddress, None, None, <<>>, 12)),
      Raw(PropertyLine(<<"P", "2">>, HouseAddress, Some(0), Some(90), <<>>, 12)),
      Raw(PropertyLine(<<"P", "3">>, HouseAddress, Some(95), Some(90), <<>>, 12)),
      Raw(PropertyLine(<<"P", "4">>, HouseAddress, Some(90), Some(90), <<>>, 11)) }

StationLine(id, name, lat, lon) ==
    Join(<<id, name, FormatNumber(lat), FormatNumber(lon)>>, ",")

\* The lines a station file is made of: a header, station 1, and station 1
\* again under another name and place.
StationLinePool ==
    { Raw(Join(<< <<"i">>, <<"n">>, <<"y">>, <<"x">> >>, ",")),
      Raw(StationLine(<<"1">>, <<"W">>, 0, 0)),
      Raw(StationLine(<<"1">>, <<"F">>, 90, 0)) }

(***************************************************************************)
(* File reading.                                                           *)
(***************************************************************************)
\* [f(x) for x in list] with f = str.strip
StripLines(lines) == [ i \in 1..Len(lines) |-> strip(lines[i]) ]

\* read_property_file: every line of the file, stripped; FileNotFoundError
\* when the file does not exist.
read_property_file(exists, lines) ==
    IF ~exists THEN [exc |-> "FileNotFoundError", value |-> <<>>]
    ELSE [exc |-> "None", value |-> StripLines(lines)]

\* next that consumes no line.
next_nothing(lines) ==
    IF lines = <<>> THEN [exc |-> "StopIteration", rest |-> <<>>]
    ELSE [exc |-> "None", rest |-> lines]

\* next(file): consumes one line; StopIteration at the end of the file.
next(lines) ==
    IF lines = <<>> THEN [exc |-> "StopIteration", rest |-> <<>>]
    ELSE [exc |-> "None", rest |-> Tail(lines)]

\* One iteration of process_stations: the unpacking of the four fields and
\* the two float() calls raise ValueError.
parse_station(line) ==
    LET fields == split(strip(line), ",")
    IN  IF Len(fields) # 4 THEN [exc |-> "ValueError", value |-> None]
        ELSE IF ~IsNumeric(fields[3]) \/ ~IsNumeric(fields[4])
        THEN [exc |-> "ValueError", value |-> None]
        ELSE [ exc |-> "None",
               value |-> [ stop_id |-> fields[1],
                           stop_name |-> fields[2],
                           stop_lat |-> ParseNumber(fields[3]),
                           stop_lon |-> ParseNumber(fields[4]) ] ]

\* if property_info['latitude'] and property_info['longitude']
Eligible(property_info) ==
    Truthy(property_info.latitude) /\ Truthy(property_info.longitude)

(***************************************************************************)
(* main of task1_data_parsing.py                                           *)
(***************************************************************************)
ElectricHotWater ==
    << "e", "l", "e", "c", "t", "r", "i", "c", " ", "h", "o", "t", " ",
       "w", "a", "t", "e", "r" >>

Balcony == <<"b", "a", "l", "c", "o", "n", "y">>

Crash(exc) ==
    /\ exception' = exc
    /\ pc' = "crashed"

\* property_strings = read_property_file(input_file); processed_data = []
MainRead ==
    /\ program = "task1" /\ pc = "main"
    /\ LET r == read_property_file(fileExists, propFile)
       IN  IF r.exc # "None"
           THEN Crash(r.exc) /\ UNCHANGED rest
           ELSE rest' = r.value /\ pc' = "main_loop" /\ UNCHANGED exception
    /\ UNCHANGED <<program, fileExists, propFile, stationFile, processed_data,
                   properties, stations, results, output_json, stdout, parsed,
                   unitVars, nearestVars>>

\* One iteration of the for loop: ValueError is caught and printed.
MainLoop ==
    /\ program = "task1" /\ pc = "main_loop" /\ rest # <<>>
    /\ LET property_string == Head(rest)
           r == extract_information(property_string)
       IN  /\ parsed' = Append(parsed,
                  <<"properties", Len(propFile) - Len(rest) + 1>>)
           /\ IF r.exc = "None"
              THEN /\ processed_data' = Append(processed_data, r.value)
                   /\ rest' = Tail(rest)
                   /\ UNCHANGED <<stdout, pc, exception>>
              ELSE IF r.exc = "ValueError"
              THEN /\ stdout' = Append(stdout,
                          [ msg |-> "Error processing property string",
                            about |-> property_string ])
                   /\ rest' = Tail(rest)
                   /\ UNCHANGED <<processed_data, pc, exception>>
              ELSE /\ Crash(r.exc)
                   /\ UNCHANGED <<processed_data, stdout, rest>>
    /\ UNCHANGED <<program, fileExists, propFile, stationFile, properties,
                   stations, results, output_json, unitVars, nearestVars>>

\* save_to_json(processed_data, output_file) and the confirmation.
MainSave ==
    /\ program = "task1" /\ pc = "main_loop" /\ rest = <<>>
    /\ output_json' = Some(processed_data)
    /\ stdout' = Append(stdout,
           [msg |-> "Processed data saved to", about |-> <<>>])
    /\ pc' = "main_features"
    /\ UNCHANGED <<program, fileExists, propFile, stationFile, rest,
                   processed_data, properties, stations, results, exception,
                   parsed, unitVars, nearestVars>>

\* if processed_data: add_feature(processed_data[0], ...), print,
\* remove_feature(processed_data[1], ...), print.
MainFeatures ==
    /\ program = "task1" /\ pc = "main_features"
    /\ IF processed_data = <<>>
       THEN pc' = "done" /\ UNCHANGED <<processed_data, stdout, exception>>
       ELSE LET added == add_feature(processed_data[1].property_features,
                                     ElectricHotWater).list
                first == [processed_data EXCEPT ![1].property_features = added]
                printed == Append(stdout,
                    [msg |-> "Updated features", about |-> added])
            IN  IF Len(processed_data) < 2
                THEN /\ processed_data' = first
                     /\ stdout' = printed
                     /\ Crash("IndexError")
                ELSE LET removed == remove_feature(
                             processed_data[2].property_features, Balcony).list
                     IN  /\ processed_data' =
                                [first EXCEPT ![2].property_features = removed]
                         /\ stdout' = Append(printed,
                                [msg |-> "Updated features", about |-> removed])
                         /\ pc' = "done"
                         /\ UNCHANGED exception
    /\ UNCHANGED <<program, fileExists, propFile, stationFile, rest,
                   properties, stations, results, output_json, parsed,
                   unitVars, nearestVars>>

(***************************************************************************)
(* process_data of task2_data_mapping.py                                   *)
(***************************************************************************)
\* process_properties: open(file_name), next(file)
PropertiesOpen ==
    /\ program = "task2" /\ pc = "process_properties"
    /\ IF ~fileExists
       THEN Crash("FileNotFoundError") /\ UNCHANGED rest
       ELSE LET r == next(propFile)
            IN  IF r.exc # "None"
                THEN Crash(r.exc) /\ UNCHANGED rest
                ELSE rest' = r.rest /\ pc' = "properties_loop"
                     /\ UNCHANGED exception
    /\ UNCHANGED <<program, fileExists, propFile, stationFile, processed_data,
                   properties, stations, results, output_json, stdout, parsed,
                   unitVars, nearestVars>>

\* One iteration of process_properties' loop: nothing is caught.
PropertiesLine ==
    /\ program = "task2" /\ pc = "properties_loop" /\ rest # <<>>
    /\ LET property_info == extract_information(strip(Head(rest)))
       IN  /\ parsed' = Append(parsed,
                  <<"properties", Len(propFile) - Len(rest) + 1>>)
           /\ IF property_info.exc # "None"
              THEN Crash(property_info.exc) /\ UNCHANGED <<properties, rest>>
              ELSE /\ properties' =
                        IF Eligible(property_info.value)
                        THEN DictSet(properties, property_info.value.prop_id,
                                     property_info.value)
                        ELSE properties
                   /\ rest' = Tail(rest)
                   /\ UNCHANGED <<pc, exception>>
    /\ UNCHANGED <<program, fileExists, propFile, stationFile, processed_data,
                   stations, results, output_json, stdout,
                   unitVars, nearestVars>>

\* return properties
PropertiesReturn ==
    /\ program = "task2" /\ pc = "properties_loop" /\ rest = <<>>
    /\ pc' = "process_stations"
    /\ UNCHANGED <<program, fileExists, propFile, stationFile, rest,
                   processed_data, properties, stations, results, output_json,
                   stdout, exception, parsed, unitVars, nearestVars>>

\* process_stations: open(file_name), next(file); the file's content is
\* whatever the station file holds.
StationsOpen ==
    /\ program = "task2" /\ pc = "process_stations"
    /\ \E lines \in SeqUpTo(StationLinePool, MaxStationLines) :
          /\ stationFile' = lines
          /\ LET r == next(lines)
             IN  IF r.exc # "None"
                 THEN Crash(r.exc) /\ UNCHANGED rest
                 ELSE rest' = r.rest /\ pc' = "stations_loop"
                      /\ UNCHANGED exception
    /\ UNCHANGED <<program, fileExists, propFile, processed_data, properties,
                   stations, results, output_json, stdout, parsed,
                   unitVars, nearestVars>>

\* One iteration of process_stations' loop: nothing is caught.
StationsLine ==
    /\ program = "task2" /\ pc = "stations_loop" /\ rest # <<>>
    /\ LET r == parse_station(Head(rest))
       IN  /\ parsed' = Append(parsed,
                  <<"stations", Len(stationFile) - Len(rest) + 1>>)
           /\ IF r.exc # "None"
              THEN Crash(r.exc) /\ UNCHANGED <<stations, rest>>
              ELSE /\ stations' = DictSet(stations, r.value.stop_id, r.value)
                   /\ rest' = Tail(rest)
                   /\ UNCHANGED <<pc, exception>>
    /\ UNCHANGED <<program, fileExists, propFile, stationFile, processed_data,
                   properties, results, output_json, stdout,
                   unitVars, nearestVars>>

\* return stations; results = []; the loop over properties.items() starts.
StationsReturn ==
    /\ program = "task2" /\ pc = "stations_loop" /\ rest = <<>>
    /\ rest' = properties
    /\ pc' = "results_loop"
    /\ UNCHANGED <<program, fileExists, propFile, stationFile, processed_data,
                   properties, stations, results, output_json, stdout,
                   exception, parsed, unitVars, nearestVars>>

\* One iteration: results.append(find_nearest_station(property_info, stations))
ResultsAppend ==
    /\ program = "task2" /\ pc = "results_loop" /\ rest # <<>>
    /\ results' = Append(results,
           find_nearest_station(Head(rest).value, stations))
    /\ rest' = Tail(rest)
    /\ UNCHANGED <<program, fileExists, propFile, stationFile, pc,
                   processed_data, properties, stations, output_json, stdout,
                   exception, parsed, unitVars, nearestVars>>

\* json.dump(results, file) and the confirmation.
ResultsDump ==
    /\ program = "task2" /\ pc = "results_loop" /\ rest = <<>>
    /\ output_json' = Some(results)
    /\ stdout' = Append(stdout,
           [msg |-> "Processed data saved to", about |-> <<>>])
    /\ pc' = "done"
    /\ UNCHANGED <<program, fileExists, propFile, stationFile, rest,
                   processed_data, properties, stations, results, exception,
                   parsed, unitVars, nearestVars>>

(***************************************************************************)
(* A run of either script on a property file.                              *)
(***************************************************************************)
Init ==
    /\ program \in {"task1", "task2"}
    /\ fileExists \in BOOLEAN
    /\ propFile \in SeqUpTo(PropertyLinePool, MaxLines)
    /\ ~fileExists => propFile = <<>>
    /\ stationFile = <<>>
    /\ pc = IF program = "task1" THEN "main" ELSE "process_properties"
    /\ rest = <<>>
    /\ processed_data = <<>>
    /\ properties = <<>>
    /\ stations = <<>>
    /\ results = <<>>
    /\ output_json = None
    /\ stdout = <<>>
    /\ exception = "None"
    /\ parsed = <<>>
    /\ UnitIdle
    /\ NearestIdle

Next ==
    \/ MainRead
    \/ MainLoop
    \/ MainSave
    \/ MainFeatures
    \/ PropertiesOpen
    \/ PropertiesLine
    \/ PropertiesReturn
    \/ StationsOpen
    \/ StationsLine
    \/ StationsReturn
    \/ ResultsAppend
    \/ ResultsDump

Spec == Init /\ [][Next]_vars

(***************************************************************************)
(* Properties of extract_information, add_feature and remove_feature.      *)
(***************************************************************************)
OutOfRange(x, limit) == x # None /\ (x[1] < 0 - limit \/ x[1] > limit)

Max(a, b) == IF a >= b THEN a ELSE b

\* C6: for a 12-field line whose other fields are valid, extract_information
\* raises the validation error exactly when the populated latitude is below
\* -90 or above 90 or the populated longitude is below -180 or above 180;
\* the bounds themselves are accepted, and an empty coordinate field gives
\* an absent value without an error.
C6_RangeInclusive ==
    (upc # "input" /\ arg.nfields = 12) =>
        /\ raised \in {"None", "ValueError"}
        /\ (raised = "ValueError") <=>
               (OutOfRange(arg.lat, 90) \/ OutOfRange(arg.lon, 180))
        /\ raised = "None" =>
               /\ unit_dict.latitude = arg.lat
               /\ unit_dict.longitude = arg.lon

\* A line with latitude 90 and longitude -180 was accepted.
C6_Witness ==
    /\ upc = "extracted"
    /\ arg.lat = Some(90) /\ arg.lon = Some(-180)
    /\ unit_dict.latitude = Some(90) /\ unit_dict.longitude = Some(-180)

\* C10 as stated: the feature list of a parsed line is the sequence of the
\* semicolon-separated tags in input order, each stripped of leading and
\* trailing whitespace, and the empty list for an empty features field.
C10_TagsTrimmed ==
    (upc = "extracted" /\ calls = <<>>) =>
        unit_dict.property_features = StripAll(arg.tags)

\* C10 amended: the feature list of a parsed line is the sequence of the
\* semicolon-separated tags in input order exactly as written, whitespace
\* kept, and the empty list for an empty features field.
C10_TagsVerbatim ==
    (upc = "extracted" /\ calls = <<>>) =>
        unit_dict.property_features = arg.tags

\* A line with the tags " h" and "d" was parsed.
C10_Witness ==
    /\ upc = "extracted" /\ calls = <<>>
    /\ arg.tags = << <<" ", "h">>, <<"d">> >>
    /\ unit_dict.property_features = << <<" ", "h">>, <<"d">> >>

\* Two successive calls add_feature(p, f), add_feature(p, f).
AddedTwice(i) ==
    /\ calls[i].op = "add_feature" /\ calls[i + 1].op = "add_feature"
    /\ calls[i].feature = calls[i + 1].feature

\* remove_feature of an absent tag raises nothing and changes nothing.
RemoveAbsentIsNoOp ==
    \A i \in 1..Len(calls) :
        (calls[i].op = "remove_feature"
            /\ ~InList(calls[i].before, calls[i].feature)) =>
            calls[i].exc = "None" /\ calls[i].after = calls[i].before

\* C5 as stated: after add_feature(p, f) twice the list holds exactly one f,
\* and remove_feature of an absent tag raises nothing and changes nothing.
C5_ExactlyOnce ==
    /\ \A i \in 1..(Len(calls) - 1) :
           AddedTwice(i) => Count(calls[i + 1].after, calls[i].feature) = 1
    /\ RemoveAbsentIsNoOp

\* C5 amended: after add_feature(p, f) twice the list holds f, the second
\* call changed nothing, neither call raised, and f occurs once when the list
\* held it at most once before, and as often as before otherwise; and
\* remove_feature of an absent tag raises nothing and changes nothing.
C5_AddIdempotent ==
    /\ \A i \in 1..(Len(calls) - 1) :
           AddedTwice(i) =>
               /\ calls[i].exc = "None" /\ calls[i + 1].exc = "None"
               /\ calls[i + 1].after = calls[i + 1].before
               /\ Count(calls[i + 1].after, calls[i].feature)
                      = Max(1, Count(calls[i].before, calls[i].feature))
    /\ RemoveAbsentIsNoOp

\* A tag absent from the parsed list was added twice.
C5_Witness ==
    /\ Len(calls) = 2 /\ AddedTwice(1)
    /\ ~InList(calls[1].before, calls[1].feature)
    /\ Count(unit_dict.property_features, calls[1].feature) = 1

(***************************************************************************)
(* Properties of the runs.                                                 *)
(***************************************************************************)
Terminal == pc \in {"done", "crashed"}

\* The lines the driver hands to extract_information when nothing stops it.
DataLines ==
    IF program = "task1" THEN StripLines(propFile)
    ELSE IF propFile = <<>> THEN <<>>
    ELSE StripLines(Tail(propFile))

\* The station lines process_stations unpacks when nothing stops it.
StationDataLines ==
    IF stationFile = <<>> THEN <<>> ELSE StripLines(Tail(stationFile))

Valid(line) == extract_information(line).exc = "None"

Short(line) == Len(split(line, ",")) < 12

\* A populated coordinate field holds a number outside its range.
BadCoordinate(line) ==
    LET parts == split(line, ",")
    IN  /\ Len(parts) = 12
        /\ \/ parts[6] # <<>> /\ IsNumeric(parts[6])
                /\ ~InRange(ParseNumber(parts[6]), 90)
           \/ parts[7] # <<>> /\ IsNumeric(parts[7])
                /\ ~InRange(ParseNumber(parts[7]), 180)

LineId(line) == split(line, ",")[1]

\* Both coordinate fields of a valid line are populated.
HasCoordinates(line) ==
    LET d == extract_information(line).value
    IN  d.latitude # None /\ d.longitude # None

\* The property ids of the entries of the output artifact.
OutputIds ==
    IF program = "task1"
    THEN [ i \in 1..Len(output_json[1]) |-> output_json[1][i].prop_id ]
    ELSE [ i \in 1..Len(output_json[1]) |-> output_json[1][i].property_id ]

\* A valid data line that the driver's output is to hold an entry for.
Due(line) ==
    Valid(line) /\ (program = "task2" => HasCoordinates(line))

\* The station file itself stopped the run.
StationsFailed ==
    /\ pc = "crashed"
    /\ \/ \E i \in 1..Len(parsed) : parsed[i][1] = "stations"
       \/ pc = "crashed" /\ stationFile = <<>> /\ exception = "StopIteration"
            /\ propFile # <<>>

\* A run that had a property file to read and was not stopped by the
\* station file has ended.
PropertyRunEnded ==
    /\ Terminal /\ fileExists /\ ~StationsFailed
    /\ program = "task2" => propFile # <<>>

\* C1: when a data line has fewer than 12 fields (every other line being
\* valid), the run skips that line only: the output artifact is written and
\* holds an entry for every valid line.
C1_ShortLineIsolated ==
    ( /\ PropertyRunEnded
      /\ \E i \in 1..Len(DataLines) : Short(DataLines[i])
      /\ \A i \in 1..Len(DataLines) : Short(DataLines[i]) \/ Valid(DataLines[i]) )
    => /\ output_json # None
       /\ \A i \in 1..Len(DataLines) :
              Due(DataLines[i]) => InList(OutputIds, LineId(DataLines[i]))

\* C2: when a data line has a populated latitude outside [-90, 90] or a
\* populated longitude outside [-180, 180] (every other line being valid),
\* the line is skipped: the output artifact is written, holds no entry for
\* that line's id and holds an entry for every valid line.
C2_BadCoordinateSkipped ==
    ( /\ PropertyRunEnded
      /\ \E i \in 1..Len(DataLines) : BadCoordinate(DataLines[i])
      /\ \A i \in 1..Len(DataLines) :
             BadCoordinate(DataLines[i]) \/ Valid(DataLines[i]) )
    => /\ output_json # None
       /\ \A i \in 1..Len(DataLines) :
              /\ Due(DataLines[i]) => InList(OutputIds, LineId(DataLines[i]))
              /\ ( /\ BadCoordinate(DataLines[i])
                   /\ \A j \in 1..Len(DataLines) :
                          Due(DataLines[j]) =>
                              LineId(DataLines[j]) # LineId(DataLines[i]) )
                 => ~InList(OutputIds, LineId(DataLines[i]))

\* C3: for valid property lines with distinct ids, the output of
\* process_data holds exactly one entry for each property whose latitude and
\* longitude are both present, and none for a property that lacks one.
C3_OneEntryPerLocated ==
    ( /\ program = "task2" /\ pc = "done"
      /\ \A i \in 1..Len(DataLines) : Valid(DataLines[i])
      /\ \A i, j \in 1..Len(DataLines) :
             i # j => LineId(DataLines[i]) # LineId(DataLines[j]) )
    => \A i \in 1..Len(DataLines) :
           Count(OutputIds, LineId(DataLines[i]))
               = IF HasCoordinates(DataLines[i]) THEN 1 ELSE 0

\* C7: when the input file exists and all its lines parse, however many
\* there are, main ends having written the output artifact and printed the
\* confirmation, without an uncaught error.
C7_MainCompletes ==
    ( /\ program = "task1" /\ Terminal /\ fileExists
      /\ \A i \in 1..Len(DataLines) : Valid(DataLines[i]) )
    => /\ pc = "done"
       /\ exception = "None"
       /\ output_json # None
       /\ \E i \in 1..Len(stdout) : stdout[i].msg = "Processed data saved to"

(***************************************************************************)
(* Duplicate ids.                                                          *)
(***************************************************************************)
\* The property load returned.
PropertiesLoaded ==
    program = "task2"
        /\ pc \in {"process_stations", "stations_loop", "results_loop", "done"}

\* The station load returned.
StationsLoaded == program = "task2" /\ pc \in {"results_loop", "done"}

\* process_properties has just returned its collection.
PropertiesReturned == program = "task2" /\ pc = "process_stations"

\* process_stations has just returned its collection.
StationsReturned ==
    program = "task2" /\ pc = "results_loop" /\ results = <<>>

\* The greatest element of a non-empty set of numbers.
Last(S) == CHOOSE i \in S : \A j \in S : j <= i

SameId(lines, i) == { j \in 1..Len(lines) : LineId(lines[j]) = LineId(lines[i]) }

Entries(d, k) == Cardinality({ i \in 1..Len(d) : d[i].key = k })

\* The data lines of line i's id that process_properties stores.
StoredSameId(i) ==
    { j \in SameId(DataLines, i) :
        Eligible(extract_information(DataLines[j]).value) }

\* Duplicates among station lines: the last line's data is held, once.
StationsLastWins ==
    StationsReturned =>
        \A i \in 1..Len(StationDataLines) :
            /\ Entries(stations, LineId(StationDataLines[i])) = 1
            /\ DictGet(stations, LineId(StationDataLines[i]))
                   = parse_station(
                         StationDataLines[Last(SameId(StationDataLines, i))]).value

\* A load is stopped only by a line that raises on its own.
NoDuplicateError ==
    /\ (pc = "crashed" /\ program = "task2" /\ ~StationsFailed
           /\ fileExists /\ propFile # <<>>)
       => \E i \in 1..Len(DataLines) : ~Valid(DataLines[i])
    /\ (pc = "crashed" /\ \E i \in 1..Len(parsed) : parsed[i][1] = "stations")
       => \E i \in 1..Len(StationDataLines) :
              parse_station(StationDataLines[i]).exc # "None"

\* C8 as stated: when lines of one load share an id, the collection holds
\* under that id the data of the last of them, in exactly one entry, and no
\* error is raised.
C8_LastLineWins ==
    /\ PropertiesReturned =>
           \A i \in 1..Len(DataLines) :
               Cardinality(SameId(DataLines, i)) > 1 =>
                   /\ Entries(properties, LineId(DataLines[i])) = 1
                   /\ DictGet(properties, LineId(DataLines[i]))
                          = extract_information(
                                DataLines[Last(SameId(DataLines, i))]).value
    /\ StationsLastWins
    /\ NoDuplicateError

\* C8 amended: when property lines of one load share an id, the collection
\* holds under that id the data of the last of them that has both
\* coordinates present and non-zero, in exactly one entry, and no entry when
\* none of them has; for station lines it holds the data of the last line;
\* and no error is raised by the duplication.
C8_LastStoredLineWins ==
    /\ PropertiesReturned =>
           \A i \in 1..Len(DataLines) :
               IF StoredSameId(i) = {}
               THEN Entries(properties, LineId(DataLines[i])) = 0
               ELSE /\ Entries(properties, LineId(DataLines[i])) = 1
                    /\ DictGet(properties, LineId(DataLines[i]))
                           = extract_information(
                                 DataLines[Last(StoredSameId(i))]).value
    /\ StationsLastWins
    /\ NoDuplicateError

\* Two located property lines of one id and different data were loaded, and
\* so were two station lines of one id and different data.
C8_Witness ==
    /\ StationsReturned
    /\ \E i, j \in 1..Len(DataLines) :
          /\ i < j /\ i \in StoredSameId(i) /\ j = Last(StoredSameId(i))
          /\ DataLines[i] # DataLines[j]
          /\ DictGet(properties, LineId(DataLines[i]))
                 = extract_information(DataLines[j]).value
    /\ \E i, j \in 1..Len(StationDataLines) :
          /\ i < j /\ j = Last(SameId(StationDataLines, i))
          /\ StationDataLines[i] # StationDataLines[j]
          /\ DictGet(stations, LineId(StationDataLines[i]))
                 = parse_station(StationDataLines[j]).value

(***************************************************************************)
(* Header skipping.                                                        *)
(***************************************************************************)
\* The line numbers of the given source parsed so far, in order.
ParsedOf(source) ==
    LET e == SelectSeq(parsed, LAMBDA x : x[1] = source)
    IN  [ i \in 1..Len(e) |-> e[i][2] ]

\* The numbers from, from + 1, ..., in order, as many as n.
Upto(from, n) == [ i \in 1..n |-> from + i - 1 ]

IsPrefix(a, b) == Len(a) <= Len(b) /\ a = SubSeq(b, 1, Len(a))

\* main's loop has ended.
MainLoopEnded ==
    program = "task1" /\ (pc \in {"main_features", "done"} \/ output_json # None)

====
